---- MODULE Spec2Model ----
(***************************************************************************)
(* A model of vl-aws-util: the ranged, retrying, chunked download reader   *)
(* (src/src/download.rs) and the multipart Upload (src/src/upload.rs).     *)
(*                                                                         *)
(* Bytes are modelled as naturals.  The stored object of the download side *)
(* holds at byte offset p the value p, and the k-th byte handed to         *)
(* Upload::send has the value k, so that a lost, duplicated or reordered   *)
(* byte is always visible.                                                 *)
(***************************************************************************)
EXTENDS Integers, Sequences, FiniteSets, TLC

\* ------------------------------------------------------------------ bounds
\* Largest stored object (bytes) the reader is run against.
MaxObjLen == 4
\* Largest network piece (bytes) one try_next of the body returns.
MaxPiece == 3
\* Chunk sizes (bytes per record) the reader is started with.
ChunkSizes == {1, 2}
\* Length (bytes) of the long object the prefetching stream is run against:
\* more records than the channel holds.
PrefetchObjLen == 12
\* Read failures the environment injects into one prefetching run.
PrefetchFailures == 1
\* Part sizes (bytes) an Upload is created with (Upload::new_with_size).
PartSizes == {1, 2}
\* Most bytes passed to one Upload over all its send calls.
MaxSent == 5
\* Most bytes passed in one send call.
MaxSendLen == 3
\* Most parts in the UploadInfo an Upload is rebuilt from.
MaxRestored == 2
\* Largest `count` passed to stream_vecs on its own.
MaxCount == 3
\* Largest content_length of an object read by download_vec.
MaxVecLen == 4
\* `amount` of Uploads::new: the number of uploads an Uploads owns.
NumUploads == 2
\* Number of tasks calling Uploads::send concurrently.
NumCallers == 2
\* Most Uploads::send calls in one run.
MaxSetSends == 3

\* ------------------------------------------------------- program constants
\* Option::None of end_index / count (download.rs: end_index: Option<usize>).
None == -1
\* `if failure_count >= 5` (download.rs:142).
FailureLimit == 5
\* `tokio::sync::mpsc::channel(10)` (download.rs:170).
QueueDepth == 10

\* ------------------------------------------------------------------- state
VARIABLES
    \* --- stream_vecs_from (download.rs:106-160)
    chunk_size,     \* chunk_size argument
    obj_len,        \* length in bytes of the stored object
    start0,         \* the start_index argument as passed by the caller
    start_index,    \* `mut start_index`
    end_index,      \* end_index: Option<usize>
    failure_count,  \* `let mut failure_count`
    rpc,            \* where the generator is suspended
    \* --- stream_vecs (download.rs:54-96), the inner stream of one request
    buf,            \* `let mut buf = BytesMut::new()`
    count,          \* `mut count: Option<usize>`
    body_pos,       \* offset of the next byte the body will deliver
    body_lim,       \* offset one past the last byte of the body
    \* --- the environment: read failures it may still inject (None: any number)
    fail_budget,
    \* --- observation: requests issued, read failures, items yielded
    hist,
    \* --- concurrent_stream_vecs_from (download.rs:162-187)
    mode,           \* "direct": the caller polls stream_vecs_from itself
                    \* "prefetch": the spawned task polls it
    ppc,            \* position of the spawned task
    held,           \* `next`, the item the task holds
    queue,          \* the mpsc channel's buffer
    rx,             \* receiver: "open", "ended" (take_while stopped), "dropped"
    received,       \* what the consumer has observed
    \* --- Upload (upload.rs:22-38)
    size_per_upload,    \* info.size_per_upload
    data,               \* data: BytesMut
    parts,              \* info.parts, the e_tags in fold order
    uploaded_bytes,     \* info.uploaded_bytes
    upload_task,        \* upload_task: the call the held JoinHandle joins, 0: None
    something_happened, \* the local of Upload::send
    upc,                \* where the caller of the Upload is
    uerr,               \* the error the last call on the Upload returned
    \* --- the store and the caller, as seen from the Upload
    calls,              \* the upload_part calls started, in start order
    sent,               \* number of bytes passed to send so far
    completion,         \* the tag list of the complete_multipart_upload call
    creates,            \* number of create_multipart_upload calls made
    restored,           \* number of parts in the UploadInfo the Upload was
                        \* built from (0 for a fresh Upload)
    pending,            \* the calls made by spawned part tasks that have
                        \* not been joined
    fin                 \* what complete awaited: the call send_final joined,
                        \* the call of the remainder part (0: none), and the
                        \* store's answer to complete_multipart_upload
VARIABLES
    \* --- Uploads (upload.rs:251-309)
    locks,          \* per Mutex: the caller holding its guard, 0: unlocked
    caller,         \* per caller of Uploads::send: position, index, and the
                    \* result of its last call
    inside,         \* per upload: the callers executing Upload::send on it
    ups,            \* per upload: how far it has been finalized
    set_pc,         \* "live", or where Uploads::complete is
    set_ix,         \* the upload the loop of Uploads::complete is at
    set_err,        \* the error Uploads::complete returned
    nsends          \* number of Uploads::send calls made
VARIABLES
    \* --- download_vec (download.rs:14-52)
    dv_pc,          \* where download_vec is
    dv_elem,        \* size_of::<T>()
    dv_size,        \* `size`, the content_length of the response
    dv_body,        \* number of bytes the body stream delivers if not failing
    dv_vec,         \* the bytes of `vec`; 0 is a byte of T::default()
    dv_off,         \* `offset`
    dv_result,      \* what download_vec returned
    dv_failed       \* whether the body stream failed or ended short

readerVars == <<chunk_size, obj_len, start0, start_index, end_index,
                failure_count, rpc, buf, count, body_pos, body_lim,
                fail_budget, hist>>
prefetchVars == <<mode, ppc, held, queue, rx, received>>
uploadVars == <<size_per_upload, data, parts, uploaded_bytes, upload_task,
                something_happened, upc, uerr, calls, sent, completion,
                creates, restored, pending, fin>>
setVars == <<locks, caller, inside, ups, set_pc, set_ix, set_err, nsends>>
vecVars == <<dv_pc, dv_elem, dv_size, dv_body, dv_vec, dv_off, dv_result,
             dv_failed>>
vars == <<readerVars, prefetchVars, uploadVars, setVars, vecVars>>

\* ----------------------------------------------------------------- helpers
Min(a, b) == IF a <= b THEN a ELSE b

\* Faulty variant: the bytes behind the chunk are thrown away.
Rest_Clear(b, n) == <<>>
\* download.rs:64: what buf.split_to(n) leaves in buf.
Rest(b, n) == SubSeq(b, n + 1, Len(b))

\* The object's bytes at offsets [from, to).
ObjBytes(from, to) == [i \in 1..(to - from) |-> from + i - 1]

\* Items and events of hist.
Ev(e, v) == [ev |-> e, val |-> v]
ChunkItem(bytes) == Ev("chunk", bytes)
ErrItem(kind) == Ev("err", <<kind>>)
EndItem == Ev("end", <<>>)

RECURSIVE Filter(_, _)
Filter(s, kinds) ==
    IF s = <<>> THEN <<>>
    ELSE IF Head(s).ev \in kinds
         THEN <<Head(s)>> \o Filter(Tail(s), kinds)
         ELSE Filter(Tail(s), kinds)

\* What stream_vecs_from has yielded so far (Some(Ok), Some(Err)) and its end.
Yielded == Filter(hist, {"chunk", "err", "end"})
Chunks == Filter(hist, {"chunk"})
Requests == Filter(hist, {"req"})

\* Faulty variant: the generator runs on while the task waits to push.
Polled_Always == TRUE
\* The generator is being polled (stream.next().await is pending).
Polled == mode = "direct" \/ ppc = "pull"

\* An event that is not handed to the poller.
Log(e) == hist' = Append(hist, e)

\* `yield item` (or the generator's end): the poller receives the item.  In
\* prefetch mode the poller is the spawned task (download.rs:175).
Emit(item) ==
    /\ hist' = Append(hist, item)
    /\ IF mode = "prefetch"
       THEN ppc' = "send" /\ held' = item
       ELSE UNCHANGED <<ppc, held>>

\* ------------------------------------------------ stream_vecs_from: request
\* download.rs:117-132, get_object succeeds.  The store serves the bytes of
\* the range that exist; a range starting at or past the object's end has an
\* empty body.  end_index = 0 is the wrapped `0 * chunk_size - 1` of a build
\* without overflow checks: the range is open-ended.
GetObjectOk ==
    /\ Polled /\ rpc = "request"
    /\ LET start_pos == start_index * chunk_size
           lim == IF end_index = None \/ end_index = 0
                  THEN obj_len
                  ELSE Min(end_index * chunk_size, obj_len)
       IN /\ body_pos' = start_pos
          /\ body_lim' = IF start_pos >= lim THEN start_pos ELSE lim
    /\ count' = IF end_index = None THEN None ELSE end_index - start_index
    /\ buf' = <<>>
    /\ rpc' = "stream"
    /\ Log(Ev("req", <<start_index, end_index>>))
    /\ UNCHANGED <<chunk_size, obj_len, start0, start_index, end_index,
                   failure_count, fail_budget, prefetchVars>>
    /\ UNCHANGED uploadVars
    /\ UNCHANGED setVars
    /\ UNCHANGED vecVars

\* Faulty variant: a failed get_object is handled like a failed read,
\* counted and retried.
GetObjectErr_Retry ==
    /\ Polled /\ rpc = "request"
    /\ failure_count < FailureLimit - 1
    /\ failure_count' = failure_count + 1
    /\ hist' = hist \o <<Ev("req", <<start_index, end_index>>)>>
                    \o <<Ev("initfail", <<>>)>>
    /\ UNCHANGED <<chunk_size, obj_len, start0, start_index, end_index, rpc,
                   buf, count, body_pos, body_lim, fail_budget, prefetchVars>>
    /\ UNCHANGED uploadVars
    /\ UNCHANGED setVars
    /\ UNCHANGED vecVars

\* download.rs:124-129, `.send().await?` fails: the error is yielded and the
\* generator returns.
GetObjectErr ==
    /\ Polled /\ rpc = "request"
    /\ rpc' = "after_err"
    /\ hist' = hist \o <<Ev("req", <<start_index, end_index>>)>>
                    \o <<Ev("initfail", <<>>)>>
                    \o <<ErrItem("StreamInitFailed")>>
    /\ IF mode = "prefetch"
       THEN ppc' = "send" /\ held' = ErrItem("StreamInitFailed")
       ELSE UNCHANGED <<ppc, held>>
    /\ UNCHANGED <<chunk_size, obj_len, start0, start_index, end_index,
                   failure_count, buf, count, body_pos, body_lim,
                   fail_budget, mode, queue, rx, received>>
    /\ UNCHANGED uploadVars
    /\ UNCHANGED setVars
    /\ UNCHANGED vecVars

\* download.rs:119, `end_index * chunk_size - 1` with end_index = 0 in a build
\* with overflow checks: the task panics.
RangeUnderflowPanic ==
    /\ Polled /\ rpc = "request" /\ end_index = 0
    /\ rpc' = "panicked"
    /\ ppc' = IF mode = "prefetch" THEN "panicked" ELSE ppc
    /\ UNCHANGED <<chunk_size, obj_len, start0, start_index, end_index,
                   failure_count, buf, count, body_pos, body_lim, hist,
                   fail_budget, mode, held, queue, rx, received>>
    /\ UNCHANGED uploadVars
    /\ UNCHANGED setVars
    /\ UNCHANGED vecVars

\* ---------------------------------------------------- stream_vecs, one step
\* Faulty variant: the counter is not reset by a delivered chunk.
CountAfterChunk_NoReset(fc) == fc
\* failure_count after a delivered chunk (download.rs:136).
CountAfterChunk(fc) == 0

\* Faulty variant: the cursor is advanced by the bytes of the chunk.
IndexAfterChunk_Bytes(ix) == ix + chunk_size
\* Faulty variant: the cursor is not advanced by a delivered chunk.
IndexAfterChunk_NoAdvance(ix) == ix
\* start_index after a delivered chunk (download.rs:137).
IndexAfterChunk(ix) == ix + 1

\* download.rs:62-72 with download.rs:135-139: a full chunk is split off the
\* buffer and yielded; the reader resets its failure counter and advances.
YieldChunk ==
    /\ Polled /\ rpc = "stream"
    /\ count # 0
    /\ Len(buf) >= chunk_size
    /\ buf' = Rest(buf, chunk_size)
    /\ count' = IF count = None THEN None ELSE count - 1
    /\ failure_count' = CountAfterChunk(failure_count)
    /\ start_index' = IndexAfterChunk(start_index)
    /\ Emit(ChunkItem(SubSeq(buf, 1, chunk_size)))
    /\ UNCHANGED <<chunk_size, obj_len, start0, end_index, rpc,
                   body_pos, body_lim, fail_budget, mode, queue, rx, received>>
    /\ UNCHANGED uploadVars
    /\ UNCHANGED setVars
    /\ UNCHANGED vecVars

\* download.rs:74-77: the count is used up; the inner stream ends without
\* another read, so the reader ends (download.rs:152-155).
CountReached ==
    /\ Polled /\ rpc = "stream"
    /\ count = 0
    /\ rpc' = "done"
    /\ Emit(EndItem)
    /\ UNCHANGED <<chunk_size, obj_len, start0, start_index, end_index,
                   failure_count, buf, count, body_pos, body_lim,
                   fail_budget, mode, queue, rx, received>>
    /\ UNCHANGED uploadVars
    /\ UNCHANGED setVars
    /\ UNCHANGED vecVars

\* download.rs:79-83: try_next returns the next piece of the body.
ReadPiece ==
    /\ Polled /\ rpc = "stream"
    /\ count # 0 /\ Len(buf) < chunk_size
    /\ \E k \in 1..MaxPiece :
        /\ body_pos + k <= body_lim
        /\ buf' = buf \o ObjBytes(body_pos, body_pos + k)
        /\ body_pos' = body_pos + k
    /\ UNCHANGED <<chunk_size, obj_len, start0, start_index, end_index,
                   failure_count, rpc, count, body_lim, fail_budget, hist,
                   prefetchVars>>
    /\ UNCHANGED uploadVars
    /\ UNCHANGED setVars
    /\ UNCHANGED vecVars

\* download.rs:84-88: the body ends.  A leftover buffer trips the assert.
ReadEof ==
    /\ Polled /\ rpc = "stream"
    /\ count # 0 /\ Len(buf) < chunk_size
    /\ body_pos = body_lim
    /\ IF buf = <<>>
       THEN /\ rpc' = "done"
            /\ Emit(EndItem)
       ELSE /\ rpc' = "panicked"
            /\ ppc' = IF mode = "prefetch" THEN "panicked" ELSE ppc
            /\ UNCHANGED <<hist, held>>
    /\ UNCHANGED <<chunk_size, obj_len, start0, start_index, end_index,
                   failure_count, buf, count, body_pos, body_lim,
                   fail_budget, mode, queue, rx, received>>
    /\ UNCHANGED uploadVars
    /\ UNCHANGED setVars
    /\ UNCHANGED vecVars

\* Faulty variant: the reader gives up one failure early.
GiveUp_Early(fc) == fc >= FailureLimit - 1
\* The reader's verdict on a failed read (download.rs:141-150).
GiveUp(fc) == fc >= FailureLimit

\* download.rs:89-92 with download.rs:140-151: try_next fails.
ReadFail ==
    /\ Polled /\ rpc = "stream"
    /\ count # 0 /\ Len(buf) < chunk_size
    /\ fail_budget # 0
    /\ fail_budget' = IF fail_budget = None THEN None ELSE fail_budget - 1
    /\ failure_count' = failure_count + 1
    /\ IF GiveUp(failure_count + 1)
       THEN /\ rpc' = "after_err"
            /\ hist' = hist \o <<Ev("fail", <<>>)>>
                            \o <<ErrItem("ByteStreamError")>>
            /\ IF mode = "prefetch"
               THEN ppc' = "send" /\ held' = ErrItem("ByteStreamError")
               ELSE UNCHANGED <<ppc, held>>
       ELSE /\ rpc' = "request"
            /\ Log(Ev("fail", <<>>))
            /\ UNCHANGED <<ppc, held>>
    /\ UNCHANGED <<chunk_size, obj_len, start0, start_index, end_index,
                   buf, count, body_pos, body_lim, mode, queue, rx, received>>
    /\ UNCHANGED uploadVars
    /\ UNCHANGED setVars
    /\ UNCHANGED vecVars

\* The generator is polled after it yielded its error: it returns.
EndAfterErr ==
    /\ Polled /\ rpc = "after_err"
    /\ rpc' = "done"
    /\ Emit(EndItem)
    /\ UNCHANGED <<chunk_size, obj_len, start0, start_index, end_index,
                   failure_count, buf, count, body_pos, body_lim,
                   fail_budget, mode, queue, rx, received>>
    /\ UNCHANGED uploadVars
    /\ UNCHANGED setVars
    /\ UNCHANGED vecVars

\* One step of the generator while it is polled.
ReaderStep ==
    \/ GetObjectOk
    \/ GetObjectErr
    \/ RangeUnderflowPanic
    \/ YieldChunk
    \/ CountReached
    \/ ReadPiece
    \/ ReadEof
    \/ ReadFail

\* A caller that polls stream_vecs_from itself polls it until it ends.
ReaderNext ==
    \/ ReaderStep
    \/ EndAfterErr

\* The state of the download_vec variables in runs without download_vec.
VecUnused ==
    /\ dv_pc = "unused"
    /\ dv_elem = 1
    /\ dv_size = 0
    /\ dv_body = 0
    /\ dv_vec = <<>>
    /\ dv_off = 0
    /\ dv_result = "none"
    /\ dv_failed = "no"

\* The state of the Uploads variables in runs without an Uploads.
SetUnused ==
    /\ locks = <<>>
    /\ caller = <<>>
    /\ inside = <<>>
    /\ ups = <<>>
    /\ set_pc = "unused"
    /\ set_ix = 0
    /\ set_err = "none"
    /\ nsends = 0

\* No Upload is in use.
UploadUnused ==
    /\ size_per_upload = 1
    /\ data = <<>>
    /\ parts = <<>>
    /\ uploaded_bytes = 0
    /\ upload_task = 0
    /\ something_happened = FALSE
    /\ upc = "unused"
    /\ uerr = "none"
    /\ calls = <<>>
    /\ sent = 0
    /\ completion = <<>>
    /\ pending = {}
    /\ creates = 0
    /\ restored = 0
    /\ fin = [joined |-> 0, part |-> 0, completion |-> "none"]

\* --------------------------------------------------------- the reader alone
InitReaderState ==
    /\ chunk_size \in ChunkSizes
    /\ obj_len \in 0..MaxObjLen
    /\ start0 \in 0..(obj_len \div chunk_size)
    /\ start_index = start0
    /\ end_index \in {None} \cup (start0..((obj_len \div chunk_size) + 1))
    /\ failure_count = 0
    /\ rpc = "request"
    /\ buf = <<>>
    /\ count = None
    /\ body_pos = 0
    /\ body_lim = 0
    /\ hist = <<>>

InitReader ==
    /\ InitReaderState
    /\ UploadUnused
    /\ fail_budget = None
    /\ mode = "direct"
    /\ ppc = "none"
    /\ held = EndItem
    /\ queue = <<>>
    /\ rx = "open"
    /\ received = <<>>
    /\ SetUnused
    /\ VecUnused

SpecReader == InitReader /\ [][ReaderNext]_vars

\* The caller keeps polling and every network call returns.
FairReader == SpecReader /\ WF_vars(ReaderNext)

\* ------------------------------------------- concurrent_stream_vecs_from
\* Faulty variant: only the end of the stream counts as the last item.
IsLast_OnlyEnd(item) == item.ev = "end"
\* download.rs:176: `!matches!(next.as_ref(), Some(Ok(_)))`.
IsLast(item) == item.ev # "chunk"

\* download.rs:177-180: tx.send(next).await succeeds once the channel has
\* room; the task then leaves the loop if the item was the last one.  While
\* the channel is full the send stays pending.
SendOk ==
    /\ mode = "prefetch" /\ ppc = "send"
    /\ rx # "dropped"
    /\ Len(queue) < QueueDepth
    /\ queue' = Append(queue, held)
    /\ ppc' = IF IsLast(held) THEN "done" ELSE "pull"
    /\ UNCHANGED <<readerVars, mode, held, rx, received>>
    /\ UNCHANGED uploadVars
    /\ UNCHANGED setVars
    /\ UNCHANGED vecVars

\* Faulty variant: the send error of a closed channel is discarded and the
\* loop goes on.
SendClosed_Ignored ==
    /\ mode = "prefetch" /\ ppc = "send"
    /\ rx = "dropped"
    /\ ppc' = IF IsLast(held) THEN "done" ELSE "pull"
    /\ UNCHANGED <<readerVars, mode, held, queue, rx, received>>
    /\ UNCHANGED uploadVars
    /\ UNCHANGED setVars
    /\ UNCHANGED vecVars

\* download.rs:177: the receiver is gone, tx.send returns Err (also to a send
\* that was pending on a full channel) and `.unwrap()` panics: the task ends.
SendClosed ==
    /\ mode = "prefetch" /\ ppc = "send"
    /\ rx = "dropped"
    /\ ppc' = "panicked"
    /\ UNCHANGED <<readerVars, mode, held, queue, rx, received>>
    /\ UNCHANGED uploadVars
    /\ UNCHANGED setVars
    /\ UNCHANGED vecVars

\* download.rs:184-186: the consumer polls the ReceiverStream and gets the
\* next queued item; take_while stops at None, map unwraps the rest.
Recv ==
    /\ mode = "prefetch" /\ rx = "open"
    /\ queue # <<>>
    /\ queue' = Tail(queue)
    /\ IF Head(queue) = EndItem
       THEN rx' = "ended" /\ UNCHANGED received
       ELSE received' = Append(received, Head(queue)) /\ UNCHANGED rx
    /\ UNCHANGED <<readerVars, mode, ppc, held>>
    /\ UNCHANGED uploadVars
    /\ UNCHANGED setVars
    /\ UNCHANGED vecVars

\* download.rs:184: the channel is empty and its sender is gone (the task
\* returned or panicked): the ReceiverStream ends.
RecvClosed ==
    /\ mode = "prefetch" /\ rx = "open"
    /\ queue = <<>>
    /\ ppc \in {"done", "panicked"}
    /\ rx' = "ended"
    /\ UNCHANGED <<readerVars, mode, ppc, held, queue, received>>
    /\ UNCHANGED uploadVars
    /\ UNCHANGED setVars
    /\ UNCHANGED vecVars

\* The consumer drops the stream returned by concurrent_stream_vecs_from
\* (download.rs:184-186), and with it the receiver.  Items still queued are
\* never read.
Drop ==
    /\ mode = "prefetch" /\ rx \in {"open", "ended"}
    /\ rx' = "dropped"
    /\ UNCHANGED <<readerVars, mode, ppc, held, queue, received>>
    /\ UNCHANGED uploadVars
    /\ UNCHANGED setVars
    /\ UNCHANGED vecVars

InitPrefetch ==
    /\ chunk_size \in ChunkSizes
    /\ obj_len \in {0, 1, PrefetchObjLen}
    /\ start0 = 0
    /\ start_index = start0
    /\ end_index \in {None, 0, obj_len \div chunk_size}
    /\ failure_count = 0
    /\ rpc = "request"
    /\ buf = <<>>
    /\ count = None
    /\ body_pos = 0
    /\ body_lim = 0
    /\ hist = <<>>
    /\ fail_budget = PrefetchFailures
    /\ mode = "prefetch"
    /\ ppc = "pull"
    /\ held = EndItem
    /\ queue = <<>>
    /\ rx = "open"
    /\ received = <<>>
    /\ UploadUnused
    /\ SetUnused
    /\ VecUnused

\* The spawned task never polls the generator again after an error item
\* (download.rs:176-180), so EndAfterErr is no step of it.
PrefetchNext ==
    \/ ReaderStep
    \/ SendOk
    \/ SendClosed
    \/ Recv
    \/ RecvClosed
    \/ Drop

SpecPrefetch == InitPrefetch /\ [][PrefetchNext]_vars

\* The spawned task is scheduled and its network calls return.
FairPrefetch ==
    SpecPrefetch /\ WF_vars(ReaderStep) /\ WF_vars(SendOk) /\ WF_vars(SendClosed)

\* ------------------------------------------------------------------ Upload
\* The n bytes the caller passes next: the k-th byte ever sent has value k.
NewBytes(n) == [i \in 1..n |-> sent + i]

\* Faulty variant: a rebuilt Upload numbers its parts from 1 again.
PartNum_Restart(ps) == Len(ps) - restored + 1
\* upload.rs:119 and upload.rs:183: the part number of the next part.
PartNum(ps) == Len(ps) + 1

\* The tag the store returns for call c: it names the body of that call.
ETag(c) == c

\* A call of upload_part as it is started (upload.rs:129-138, 188-197).
NewCall(num, body) == [num |-> num, body |-> body, status |-> "running"]

\* upload.rs:167: upload_task.is_some() && is_finished().
TaskFinished == upload_task # 0 /\ calls[upload_task].status # "running"

\* upload.rs:171: `something_happened || self.finish_part_upload().await?`
\* evaluates finish_part_upload only when something_happened is false.
JoinsBeforeStart(sh) == ~sh

\* upload.rs:156-157: the result of a joined task is folded into the info.
FoldedParts(c) == Append(parts, ETag(c))
FoldedBytes(c) == uploaded_bytes + Len(calls[c].body)

\* Faulty variant: an error of send_final is reported as a completion error.
SendFinalError_AsCompletion == "CompletionFailed"
\* upload.rs:206-208: `.map_err(UploadCompleteError::FinalPartFailed)` on
\* whatever error send_final returns.
SendFinalError == "FinalPartFailed"

\* upload.rs:245: `.map_err(UploadCompleteError::CompletionFailed)`.
CompletionError == "CompletionFailed"

\* upload.rs:164-169: send appends the data and, if the part task has
\* already finished, joins it (an error of the task is returned at once).
SendCall ==
    /\ upc = "idle"
    /\ \E n \in 0..MaxSendLen :
        /\ sent + n <= MaxSent
        /\ data' = data \o NewBytes(n)
        /\ sent' = sent + n
    /\ IF TaskFinished
       THEN /\ upload_task' = 0
            /\ IF calls[upload_task].status = "ok"
               THEN /\ parts' = FoldedParts(upload_task)
                    /\ uploaded_bytes' = FoldedBytes(upload_task)
                    /\ something_happened' = TRUE
                    /\ upc' = "send_loop"
                    /\ uerr' = "none"
               ELSE /\ upc' = "idle"
                    /\ uerr' = "UploadPartError"
                    /\ something_happened' = FALSE
                    /\ UNCHANGED <<parts, uploaded_bytes>>
       ELSE /\ something_happened' = FALSE
            /\ upc' = "send_loop"
            /\ uerr' = "none"
            /\ UNCHANGED <<parts, uploaded_bytes, upload_task>>
    /\ UNCHANGED <<size_per_upload, calls, completion>>
    /\ UNCHANGED <<readerVars, prefetchVars>>
    /\ UNCHANGED fin
    /\ UNCHANGED <<creates, restored>>
    /\ UNCHANGED setVars
    /\ UNCHANGED vecVars
    /\ pending' = IF TaskFinished THEN pending \ {upload_task} ELSE pending

\* upload.rs:170 and 175: less than a part is buffered; send returns.
SendLoopReturn ==
    /\ upc = "send_loop"
    /\ Len(data) < size_per_upload
    /\ upc' = "idle"
    /\ UNCHANGED <<size_per_upload, data, parts, uploaded_bytes, upload_task,
                   something_happened, uerr, calls, sent, completion>>
    /\ UNCHANGED <<readerVars, prefetchVars>>
    /\ UNCHANGED fin
    /\ UNCHANGED <<creates, restored>>
    /\ UNCHANGED setVars
    /\ UNCHANGED vecVars
    /\ UNCHANGED pending

\* upload.rs:170-172 with 116-147 and 149-162: one iteration of the loop.
\* finish_part_upload, when it is evaluated and a task is held, waits for the
\* task and folds its result; start_part_upload then splits a part off the
\* buffer and spawns its upload, storing the new handle in upload_task (a
\* handle still held there is dropped, its task runs on).
SendLoopStart ==
    /\ upc = "send_loop"
    /\ Len(data) >= size_per_upload
    /\ LET joins == JoinsBeforeStart(something_happened) /\ upload_task # 0
           ps == IF joins THEN FoldedParts(upload_task) ELSE parts
       IN /\ joins => calls[upload_task].status = "ok"
          /\ parts' = ps
          /\ uploaded_bytes' = IF joins THEN FoldedBytes(upload_task)
                               ELSE uploaded_bytes
          /\ something_happened' = (something_happened \/ joins)
          /\ calls' = Append(calls, NewCall(PartNum(ps),
                                            SubSeq(data, 1, size_per_upload)))
    /\ upload_task' = Len(calls) + 1
    /\ data' = SubSeq(data, size_per_upload + 1, Len(data))
    /\ UNCHANGED <<size_per_upload, upc, uerr, sent, completion>>
    /\ UNCHANGED <<readerVars, prefetchVars>>
    /\ UNCHANGED fin
    /\ UNCHANGED <<creates, restored>>
    /\ UNCHANGED setVars
    /\ UNCHANGED vecVars
    /\ pending' = (IF JoinsBeforeStart(something_happened)
                   THEN pending \ {upload_task} ELSE pending)
                      \cup {Len(calls) + 1}

\* upload.rs:171 with 152-154: the joined task failed; send returns its error.
SendLoopJoinErr ==
    /\ upc = "send_loop"
    /\ Len(data) >= size_per_upload
    /\ JoinsBeforeStart(something_happened) /\ upload_task # 0
    /\ calls[upload_task].status = "failed"
    /\ upload_task' = 0
    /\ upc' = "idle"
    /\ uerr' = "UploadPartError"
    /\ UNCHANGED <<size_per_upload, data, parts, uploaded_bytes,
                   something_happened, calls, sent, completion>>
    /\ UNCHANGED <<readerVars, prefetchVars>>
    /\ UNCHANGED fin
    /\ UNCHANGED <<creates, restored>>
    /\ UNCHANGED setVars
    /\ UNCHANGED vecVars
    /\ pending' = pending \ {upload_task}

\* upload.rs:130-143, 188-199: the store answers a call of upload_part.
PartUploadOk ==
    /\ \E c \in 1..Len(calls) :
        /\ calls[c].status = "running"
        /\ calls' = [calls EXCEPT ![c].status = "ok"]
    /\ UNCHANGED <<size_per_upload, data, parts, uploaded_bytes, upload_task,
                   something_happened, upc, uerr, sent, completion>>
    /\ UNCHANGED <<readerVars, prefetchVars>>
    /\ UNCHANGED fin
    /\ UNCHANGED <<creates, restored>>
    /\ UNCHANGED setVars
    /\ UNCHANGED vecVars
    /\ UNCHANGED pending

PartUploadFail ==
    /\ \E c \in 1..Len(calls) :
        /\ calls[c].status = "running"
        /\ calls' = [calls EXCEPT ![c].status = "failed"]
    /\ UNCHANGED <<size_per_upload, data, parts, uploaded_bytes, upload_task,
                   something_happened, upc, uerr, sent, completion>>
    /\ UNCHANGED <<readerVars, prefetchVars>>
    /\ UNCHANGED fin
    /\ UNCHANGED <<creates, restored>>
    /\ UNCHANGED setVars
    /\ UNCHANGED vecVars
    /\ UNCHANGED pending

\* upload.rs:205-206: the caller calls complete, which calls send_final.
CompleteCall ==
    /\ upc = "idle"
    /\ upc' = "send_final"
    /\ uerr' = "none"
    /\ UNCHANGED <<size_per_upload, data, parts, uploaded_bytes, upload_task,
                   something_happened, calls, sent, completion>>
    /\ UNCHANGED <<readerVars, prefetchVars>>
    /\ UNCHANGED fin
    /\ UNCHANGED <<creates, restored>>
    /\ UNCHANGED setVars
    /\ UNCHANGED vecVars
    /\ UNCHANGED pending

\* upload.rs:179-197: send_final joins the held task, if any, and folds its
\* result; then it returns if the buffer is empty, and otherwise calls
\* upload_part for the buffered remainder.
SendFinalJoin ==
    /\ upc = "send_final"
    /\ upload_task # 0 => calls[upload_task].status = "ok"
    /\ LET ps == IF upload_task # 0 THEN FoldedParts(upload_task) ELSE parts
       IN /\ parts' = ps
          /\ IF data = <<>>
             THEN /\ upc' = "completing"
                  /\ UNCHANGED calls
             ELSE /\ upc' = "final_part"
                  /\ calls' = Append(calls, NewCall(PartNum(ps), data))
    /\ uploaded_bytes' = IF upload_task # 0 THEN FoldedBytes(upload_task)
                         ELSE uploaded_bytes
    /\ upload_task' = 0
    /\ fin' = [fin EXCEPT !.joined = upload_task,
                          !.part = IF data = <<>> THEN 0 ELSE Len(calls) + 1]
    /\ UNCHANGED <<size_per_upload, data, something_happened, uerr, sent,
                   completion>>
    /\ UNCHANGED <<readerVars, prefetchVars>>
    /\ UNCHANGED <<creates, restored>>
    /\ UNCHANGED setVars
    /\ UNCHANGED vecVars
    /\ pending' = pending \ {upload_task}

\* upload.rs:179 with 206-208: the joined task failed.
SendFinalJoinErr ==
    /\ upc = "send_final"
    /\ upload_task # 0 /\ calls[upload_task].status = "failed"
    /\ upload_task' = 0
    /\ upc' = "returned"
    /\ uerr' = SendFinalError
    /\ fin' = [fin EXCEPT !.joined = upload_task]
    /\ UNCHANGED <<size_per_upload, data, parts, uploaded_bytes,
                   something_happened, calls, sent, completion>>
    /\ UNCHANGED <<readerVars, prefetchVars>>
    /\ UNCHANGED <<creates, restored>>
    /\ UNCHANGED setVars
    /\ UNCHANGED vecVars
    /\ pending' = pending \ {upload_task}

\* upload.rs:197-202: the final part's call returned its tag.
FinalPartOk ==
    /\ upc = "final_part"
    /\ calls[Len(calls)].status = "ok"
    /\ parts' = Append(parts, ETag(Len(calls)))
    /\ upc' = "completing"
    /\ UNCHANGED <<size_per_upload, data, uploaded_bytes, upload_task,
                   something_happened, uerr, calls, sent, completion>>
    /\ UNCHANGED <<readerVars, prefetchVars>>
    /\ UNCHANGED fin
    /\ UNCHANGED <<creates, restored>>
    /\ UNCHANGED setVars
    /\ UNCHANGED vecVars
    /\ UNCHANGED pending

\* upload.rs:197 with 206-208: the final part's call failed.
FinalPartErr ==
    /\ upc = "final_part"
    /\ calls[Len(calls)].status = "failed"
    /\ upc' = "returned"
    /\ uerr' = SendFinalError
    /\ UNCHANGED <<size_per_upload, data, parts, uploaded_bytes, upload_task,
                   something_happened, calls, sent, completion>>
    /\ UNCHANGED <<readerVars, prefetchVars>>
    /\ UNCHANGED fin
    /\ UNCHANGED <<creates, restored>>
    /\ UNCHANGED setVars
    /\ UNCHANGED vecVars
    /\ UNCHANGED pending

\* upload.rs:209-243: complete_multipart_upload is called with the tags of
\* parts, numbered by position.
IssueCompletion ==
    /\ upc = "completing"
    /\ completion' = parts
    /\ upc' = "completion_sent"
    /\ UNCHANGED <<size_per_upload, data, parts, uploaded_bytes, upload_task,
                   something_happened, uerr, calls, sent>>
    /\ UNCHANGED <<readerVars, prefetchVars>>
    /\ UNCHANGED fin
    /\ UNCHANGED <<creates, restored>>
    /\ UNCHANGED setVars
    /\ UNCHANGED vecVars
    /\ UNCHANGED pending

\* upload.rs:244-247: the completion call returns.
CompletionOk ==
    /\ upc = "completion_sent"
    /\ upc' = "returned"
    /\ uerr' = "none"
    /\ fin' = [fin EXCEPT !.completion = "ok"]
    /\ UNCHANGED <<size_per_upload, data, parts, uploaded_bytes, upload_task,
                   something_happened, calls, sent, completion>>
    /\ UNCHANGED <<readerVars, prefetchVars>>
    /\ UNCHANGED <<creates, restored>>
    /\ UNCHANGED setVars
    /\ UNCHANGED vecVars
    /\ UNCHANGED pending

CompletionErr ==
    /\ upc = "completion_sent"
    /\ upc' = "returned"
    /\ uerr' = CompletionError
    /\ fin' = [fin EXCEPT !.completion = "failed"]
    /\ UNCHANGED <<size_per_upload, data, parts, uploaded_bytes, upload_task,
                   something_happened, calls, sent, completion>>
    /\ UNCHANGED <<readerVars, prefetchVars>>
    /\ UNCHANGED <<creates, restored>>
    /\ UNCHANGED setVars
    /\ UNCHANGED vecVars
    /\ UNCHANGED pending

\* No reader is in use.
ReaderUnused ==
    /\ chunk_size = 1
    /\ obj_len = 0
    /\ start0 = 0
    /\ start_index = 0
    /\ end_index = None
    /\ failure_count = 0
    /\ rpc = "unused"
    /\ buf = <<>>
    /\ count = None
    /\ body_pos = 0
    /\ body_lim = 0
    /\ fail_budget = 0
    /\ hist = <<>>
    /\ mode = "unused"
    /\ ppc = "none"
    /\ held = EndItem
    /\ queue = <<>>
    /\ rx = "open"
    /\ received = <<>>

\* upload.rs:87-114: a fresh Upload, as Upload::new_with_size returns it.
InitUpload ==
    /\ size_per_upload \in PartSizes
    /\ data = <<>>
    /\ parts = <<>>
    /\ uploaded_bytes = 0
    /\ upload_task = 0
    /\ something_happened = FALSE
    /\ upc = "idle"
    /\ uerr = "none"
    /\ calls = <<>>
    /\ sent = 0
    /\ completion = <<>>
    /\ pending = {}
    /\ creates = 1
    /\ restored = 0
    /\ fin = [joined |-> 0, part |-> 0, completion |-> "none"]
    /\ ReaderUnused
    /\ SetUnused
    /\ VecUnused

UploadNext ==
    \/ SendCall
    \/ SendLoopReturn
    \/ SendLoopStart
    \/ SendLoopJoinErr
    \/ PartUploadOk
    \/ PartUploadFail
    \/ CompleteCall
    \/ SendFinalJoin
    \/ SendFinalJoinErr
    \/ FinalPartOk
    \/ FinalPartErr
    \/ IssueCompletion
    \/ CompletionOk
    \/ CompletionErr

SpecUpload == InitUpload /\ [][UploadNext]_vars

\* -------------------------------------------------- Upload::new_from_info
\* Part j of an earlier Upload of the same object, as the store holds it: the
\* bytes before the first byte this Upload is sent, which has the value 1.
RestoredCall(j, k, size) ==
    [num |-> j,
     body |-> [i \in 1..size |-> (j - 1 - k) * size + i],
     status |-> "ok"]

\* upload.rs:49-56: an Upload built by new_from_info from the UploadInfo of
\* an Upload that had folded k parts.  No call is made; the buffer is empty
\* and no task is held.
InitResumed ==
    /\ size_per_upload \in PartSizes
    /\ restored \in 0..MaxRestored
    /\ calls = [j \in 1..restored |-> RestoredCall(j, restored, size_per_upload)]
    /\ parts = [j \in 1..restored |-> ETag(j)]
    /\ uploaded_bytes = restored * size_per_upload
    /\ data = <<>>
    /\ upload_task = 0
    /\ something_happened = FALSE
    /\ upc = "idle"
    /\ uerr = "none"
    /\ sent = 0
    /\ completion = <<>>
    /\ pending = {}
    /\ creates = 0
    /\ fin = [joined |-> 0, part |-> 0, completion |-> "none"]
    /\ ReaderUnused
    /\ SetUnused
    /\ VecUnused

SpecResumed == InitResumed /\ [][UploadNext]_vars

\* -------------------------------------------------- stream_vecs on its own
\* download.rs:89-92: try_next fails; the error is yielded and the loop left.
ReadErr ==
    /\ Polled /\ rpc = "stream"
    /\ count # 0 /\ Len(buf) < chunk_size
    /\ rpc' = "after_err"
    /\ Emit(ErrItem("ByteStreamError"))
    /\ UNCHANGED <<chunk_size, obj_len, start0, start_index, end_index,
                   failure_count, buf, count, body_pos, body_lim,
                   fail_budget, mode, queue, rx, received>>
    /\ UNCHANGED uploadVars
    /\ UNCHANGED setVars
    /\ UNCHANGED vecVars

\* download.rs:54-60: stream_vecs called by itself on a byte stream of
\* obj_len bytes with `count` = end_index; start_index counts the chunks the
\* caller has taken.
InitStreamVecs ==
    /\ chunk_size \in ChunkSizes
    /\ obj_len \in 0..MaxObjLen
    /\ start0 = 0
    /\ start_index = 0
    /\ end_index \in {None} \cup (0..MaxCount)
    /\ count = end_index
    /\ failure_count = 0
    /\ rpc = "stream"
    /\ buf = <<>>
    /\ body_pos = 0
    /\ body_lim = obj_len
    /\ hist = <<>>
    /\ fail_budget = 0
    /\ mode = "direct"
    /\ ppc = "none"
    /\ held = EndItem
    /\ queue = <<>>
    /\ rx = "open"
    /\ received = <<>>
    /\ UploadUnused
    /\ SetUnused
    /\ VecUnused

StreamVecsNext ==
    \/ YieldChunk
    \/ CountReached
    \/ ReadPiece
    \/ ReadEof
    \/ ReadErr
    \/ EndAfterErr

SpecStreamVecs == InitStreamVecs /\ [][StreamVecsNext]_vars

\* ------------------------------------------------------------- download_vec
\* size_of::<T>() of the element types the function is used with.
ElemSizes == {1, 2}

\* The body's bytes at offsets [from, to); the byte at offset o is o + 1, so
\* that no byte of the object equals a byte of T::default().
BodyBytes(from, to) == [i \in 1..(to - from) |-> from + i]

\* download.rs:19-29: get_object succeeds with content_length = size, a
\* multiple of the element size; vec is `length` default elements.
DvGetObjectOk ==
    /\ dv_pc = "call"
    /\ \E size \in 0..MaxVecLen :
          /\ size % dv_elem = 0
          /\ dv_size' = size
          /\ dv_body' \in 0..(size + 1)
          /\ dv_vec' = [i \in 1..size |-> 0]
    /\ dv_off' = 0
    /\ dv_pc' = "stream"
    /\ UNCHANGED <<dv_elem, dv_result, dv_failed>>
    /\ UNCHANGED <<readerVars, prefetchVars, uploadVars, setVars>>

\* download.rs:27: the assert on a content_length that is no multiple of
\* the element size.
DvMisaligned ==
    /\ dv_pc = "call"
    /\ \E size \in 0..MaxVecLen :
          /\ size % dv_elem # 0
          /\ dv_size' = size
    /\ dv_pc' = "panicked"
    /\ UNCHANGED <<dv_elem, dv_body, dv_vec, dv_off, dv_result, dv_failed>>
    /\ UNCHANGED <<readerVars, prefetchVars, uploadVars, setVars>>

\* download.rs:44-47: the store answers NoSuchKey.
DvNoSuchKey ==
    /\ dv_pc = "call"
    /\ dv_pc' = "returned"
    /\ dv_result' = "absent"
    /\ UNCHANGED <<dv_elem, dv_size, dv_body, dv_vec, dv_off, dv_failed>>
    /\ UNCHANGED <<readerVars, prefetchVars, uploadVars, setVars>>

\* download.rs:44-48: any other error of get_object.
DvGetObjectErr ==
    /\ dv_pc = "call"
    /\ dv_pc' = "returned"
    /\ dv_result' = "err"
    /\ UNCHANGED <<dv_elem, dv_size, dv_body, dv_vec, dv_off, dv_failed>>
    /\ UNCHANGED <<readerVars, prefetchVars, uploadVars, setVars>>

\* download.rs:32-40: the body yields Some(Ok(chunk)) that fits; it is
\* copied to `offset`.
DvChunk ==
    /\ dv_pc = "stream"
    /\ \E k \in 1..MaxPiece :
          /\ dv_off + k <= dv_body
          /\ dv_off + k <= Len(dv_vec)
          /\ dv_vec' = [i \in 1..Len(dv_vec) |->
                           IF i > dv_off /\ i <= dv_off + k
                           THEN BodyBytes(dv_off, dv_off + k)[i - dv_off]
                           ELSE dv_vec[i]]
          /\ dv_off' = dv_off + k
    /\ UNCHANGED <<dv_pc, dv_elem, dv_size, dv_body, dv_result, dv_failed>>
    /\ UNCHANGED <<readerVars, prefetchVars, uploadVars, setVars>>

\* download.rs:37: the assert on a chunk that goes past the end of vec.
DvOverflow ==
    /\ dv_pc = "stream"
    /\ \E k \in 1..MaxPiece :
          /\ dv_off + k <= dv_body
          /\ dv_off + k > Len(dv_vec)
    /\ dv_pc' = "panicked"
    /\ UNCHANGED <<dv_elem, dv_size, dv_body, dv_vec, dv_off, dv_result,
                   dv_failed>>
    /\ UNCHANGED <<readerVars, prefetchVars, uploadVars, setVars>>

\* download.rs:32 and 42: the body yields Some(Err(_)), which the pattern
\* `Some(Ok(chunk))` does not match: the loop is left and Ok(Some(vec)) is
\* returned.
DvReadFail ==
    /\ dv_pc = "stream"
    /\ dv_failed' = "read_error"
    /\ dv_pc' = "returned"
    /\ dv_result' = "some"
    /\ UNCHANGED <<dv_elem, dv_size, dv_body, dv_vec, dv_off>>
    /\ UNCHANGED <<readerVars, prefetchVars, uploadVars, setVars>>

\* download.rs:32 and 42: the body yields None; Ok(Some(vec)) is returned.
DvEnd ==
    /\ dv_pc = "stream"
    /\ dv_off = dv_body
    /\ dv_failed' = IF dv_off < dv_size THEN "short" ELSE dv_failed
    /\ dv_pc' = "returned"
    /\ dv_result' = "some"
    /\ UNCHANGED <<dv_elem, dv_size, dv_body, dv_vec, dv_off>>
    /\ UNCHANGED <<readerVars, prefetchVars, uploadVars, setVars>>

\* download.rs:14-19: download_vec is called for an element type.
InitDownloadVec ==
    /\ dv_pc = "call"
    /\ dv_elem \in ElemSizes
    /\ dv_size = 0
    /\ dv_body = 0
    /\ dv_vec = <<>>
    /\ dv_off = 0
    /\ dv_result = "none"
    /\ dv_failed = "no"
    /\ ReaderUnused
    /\ UploadUnused
    /\ SetUnused

DownloadVecNext ==
    \/ DvGetObjectOk
    \/ DvMisaligned
    \/ DvNoSuchKey
    \/ DvGetObjectErr
    \/ DvChunk
    \/ DvOverflow
    \/ DvReadFail
    \/ DvEnd

SpecDownloadVec == InitDownloadVec /\ [][DownloadVecNext]_vars

\* ------------------------------------------------------------------ Uploads
\* The indexes of the uploads (the code counts from 0) and the callers.
UploadIx == 1..NumUploads
Callers == 1..NumCallers

\* Faulty variant: one Mutex guards the whole collection.
LockOf_Single(i) == 1
\* upload.rs:252 and upload.rs:295: upload i is guarded by its own Mutex.
LockOf(i) == i

\* Faulty variant: the loop goes on to the next upload after an error.
AfterError_Continue(ix) == ix + 1
\* upload.rs:305: `?` returns from Uploads::complete at the first error; the
\* uploads after ix are dropped.
AfterError(ix) == NumUploads + 1

HeldBy(c) == {l \in UploadIx : locks[l] = c}
InSend(c) == caller[c].pc \in {"send", "join"}
Quiet == \A c \in Callers : caller[c].pc = "idle"

\* upload.rs:294: a task calls Uploads::send(index, data).  &self: Uploads
\* has not been consumed by complete.
SetSendCall ==
    /\ set_pc = "live"
    /\ nsends < MaxSetSends
    /\ \E c \in Callers, i \in UploadIx :
          /\ caller[c].pc = "idle"
          /\ caller' = [caller EXCEPT ![c].pc = "lock", ![c].index = i]
    /\ nsends' = nsends + 1
    /\ UNCHANGED <<locks, inside, ups, set_pc, set_ix, set_err>>
    /\ UNCHANGED <<readerVars, prefetchVars, uploadVars>>
    /\ UNCHANGED vecVars

\* upload.rs:295: self.uploads[index].lock().await is granted to caller c,
\* which enters Upload::send (upload.rs:297).
Acquire(c) ==
    /\ caller[c].pc = "lock"
    /\ locks[LockOf(caller[c].index)] = 0
    /\ locks' = [locks EXCEPT ![LockOf(caller[c].index)] = c]
    /\ inside' = [inside EXCEPT ![caller[c].index] = @ \cup {c}]
    /\ caller' = [caller EXCEPT ![c].pc = "send"]
    /\ UNCHANGED <<ups, set_pc, set_ix, set_err, nsends>>
    /\ UNCHANGED <<readerVars, prefetchVars, uploadVars>>
    /\ UNCHANGED vecVars

SetLockAcquire == \E c \in Callers : Acquire(c)

\* upload.rs:151 reached from upload.rs:167 or 171: inside Upload::send the
\* caller suspends on the join of a part; the guard stays held.
SetSendSuspend ==
    /\ \E c \in Callers :
          /\ caller[c].pc = "send"
          /\ caller' = [caller EXCEPT ![c].pc = "join"]
    /\ UNCHANGED <<locks, inside, ups, set_pc, set_ix, set_err, nsends>>
    /\ UNCHANGED <<readerVars, prefetchVars, uploadVars>>
    /\ UNCHANGED vecVars

\* upload.rs:151-158: the joined part was acknowledged; Upload::send goes on.
SetSendJoined ==
    /\ \E c \in Callers :
          /\ caller[c].pc = "join"
          /\ caller' = [caller EXCEPT ![c].pc = "send"]
    /\ UNCHANGED <<locks, inside, ups, set_pc, set_ix, set_err, nsends>>
    /\ UNCHANGED <<readerVars, prefetchVars, uploadVars>>
    /\ UNCHANGED vecVars

\* The end of Uploads::send for caller c with result r: the MutexGuard
\* `upload` goes out of scope (upload.rs:300).
Leave(c, r) ==
    /\ locks' = [l \in UploadIx |-> IF locks[l] = c THEN 0 ELSE locks[l]]
    /\ inside' = [inside EXCEPT ![caller[c].index] = @ \ {c}]
    /\ caller' = [caller EXCEPT ![c].pc = "idle", ![c].result = r]

\* upload.rs:297: the joined part failed and `?` returns the error.
SetSendReturnErr ==
    /\ \E c \in Callers :
          /\ caller[c].pc = "join"
          /\ Leave(c, "err")
    /\ UNCHANGED <<ups, set_pc, set_ix, set_err, nsends>>
    /\ UNCHANGED <<readerVars, prefetchVars, uploadVars>>
    /\ UNCHANGED vecVars

\* upload.rs:299: Ok(()).
SetSendReturnOk ==
    /\ \E c \in Callers :
          /\ caller[c].pc = "send"
          /\ Leave(c, "ok")
    /\ UNCHANGED <<ups, set_pc, set_ix, set_err, nsends>>
    /\ UNCHANGED <<readerVars, prefetchVars, uploadVars>>
    /\ UNCHANGED vecVars

\* upload.rs:302: Uploads::complete(self) takes the Uploads by value, which
\* the borrow rules allow only while no send call is running.
SetCompleteCall ==
    /\ set_pc = "live"
    /\ Quiet
    /\ set_pc' = "completing"
    /\ set_ix' = 1
    /\ UNCHANGED <<locks, caller, inside, ups, set_err, nsends>>
    /\ UNCHANGED <<readerVars, prefetchVars, uploadVars>>
    /\ UNCHANGED vecVars

\* upload.rs:303-305 with upload.rs:206: the loop takes the next upload out
\* of its Mutex and Upload::complete runs send_final on it.
SetCompleteNext ==
    /\ set_pc = "completing"
    /\ set_ix \in UploadIx
    /\ ups[set_ix] = "open"
    /\ ups' = [ups EXCEPT ![set_ix] = "send_final"]
    /\ UNCHANGED <<locks, caller, inside, set_pc, set_ix, set_err, nsends>>
    /\ UNCHANGED <<readerVars, prefetchVars, uploadVars>>
    /\ UNCHANGED vecVars

\* upload.rs:206-244: send_final succeeded, the final part is flushed, and
\* complete_multipart_upload is called for this upload.
SetFinalOk ==
    /\ set_pc = "completing"
    /\ set_ix \in UploadIx
    /\ ups[set_ix] = "send_final"
    /\ ups' = [ups EXCEPT ![set_ix] = "completion_sent"]
    /\ UNCHANGED <<locks, caller, inside, set_pc, set_ix, set_err, nsends>>
    /\ UNCHANGED <<readerVars, prefetchVars, uploadVars>>
    /\ UNCHANGED vecVars

\* The loop of Uploads::complete after upload set_ix returned the error e.
FailAt(state, e) ==
    /\ ups' = [ups EXCEPT ![set_ix] = state]
    /\ set_err' = IF set_err = "none" THEN e ELSE set_err
    /\ set_ix' = AfterError(set_ix)
    /\ UNCHANGED <<locks, caller, inside, set_pc, nsends>>

\* upload.rs:206-208: send_final failed.
SetFinalErr ==
    /\ set_pc = "completing"
    /\ set_ix \in UploadIx
    /\ ups[set_ix] = "send_final"
    /\ FailAt("final_failed", SendFinalError)
    /\ UNCHANGED <<readerVars, prefetchVars, uploadVars>>
    /\ UNCHANGED vecVars

\* upload.rs:245-247: complete_multipart_upload succeeded; the loop goes on.
SetCompletionOk ==
    /\ set_pc = "completing"
    /\ set_ix \in UploadIx
    /\ ups[set_ix] = "completion_sent"
    /\ ups' = [ups EXCEPT ![set_ix] = "completed"]
    /\ set_ix' = set_ix + 1
    /\ UNCHANGED <<locks, caller, inside, set_pc, set_err, nsends>>
    /\ UNCHANGED <<readerVars, prefetchVars, uploadVars>>
    /\ UNCHANGED vecVars

\* upload.rs:245: complete_multipart_upload failed.
SetCompletionErr ==
    /\ set_pc = "completing"
    /\ set_ix \in UploadIx
    /\ ups[set_ix] = "completion_sent"
    /\ FailAt("completion_failed", CompletionError)
    /\ UNCHANGED <<readerVars, prefetchVars, uploadVars>>
    /\ UNCHANGED vecVars

\* upload.rs:305 and upload.rs:308: Uploads::complete returns, with the
\* error or, the loop being over, with Ok(()).
SetCompleteReturn ==
    /\ set_pc = "completing"
    /\ set_ix = NumUploads + 1
    /\ set_pc' = "returned"
    /\ UNCHANGED <<locks, caller, inside, ups, set_ix, set_err, nsends>>
    /\ UNCHANGED <<readerVars, prefetchVars, uploadVars>>
    /\ UNCHANGED vecVars

\* upload.rs:256-292: an Uploads of NumUploads uploads, every Mutex unlocked.
InitUploads ==
    /\ locks = [l \in UploadIx |-> 0]
    /\ caller = [c \in Callers |-> [pc |-> "idle", index |-> 1, result |-> "none"]]
    /\ inside = [i \in UploadIx |-> {}]
    /\ ups = [i \in UploadIx |-> "open"]
    /\ set_pc = "live"
    /\ set_ix = 0
    /\ set_err = "none"
    /\ nsends = 0
    /\ ReaderUnused
    /\ UploadUnused
    /\ VecUnused

UploadsNext ==
    \/ SetSendCall
    \/ SetLockAcquire
    \/ SetSendSuspend
    \/ SetSendJoined
    \/ SetSendReturnErr
    \/ SetSendReturnOk
    \/ SetCompleteCall
    \/ SetCompleteNext
    \/ SetFinalOk
    \/ SetFinalErr
    \/ SetCompletionOk
    \/ SetCompletionErr
    \/ SetCompleteReturn

SpecUploads == InitUploads /\ [][UploadsNext]_vars

\* ------------------------------------------------------------ observations
\* Number of "chunk" events among the first n events of hist.
ChunksBefore(n) == Cardinality({k \in 1..n : hist[k].ev = "chunk"})

\* Length of the run of consecutive read failures that ends at event j of
\* hist, a delivered chunk being what breaks a run.
RECURSIVE FailRunAt(_)
FailRunAt(j) ==
    IF j = 0 THEN 0
    ELSE IF hist[j].ev = "chunk" THEN 0
    ELSE IF hist[j].ev = "fail" THEN 1 + FailRunAt(j - 1)
    ELSE FailRunAt(j - 1)

\* The longest run of consecutive read failures so far.
MaxFailRun ==
    IF hist = <<>> THEN 0
    ELSE CHOOSE m \in {FailRunAt(j) : j \in 1..Len(hist)} :
            \A j \in 1..Len(hist) : FailRunAt(j) <= m

ReadErrAt(j) == hist[j] = ErrItem("ByteStreamError")
InitErrAt(j) == hist[j] = ErrItem("StreamInitFailed")

\* Number of whole records the object holds, and the records of the range.
ObjRecords == obj_len \div chunk_size
RangeEnd == IF end_index = None THEN ObjRecords ELSE Min(end_index, ObjRecords)
Record(i) == ChunkItem(ObjBytes(i * chunk_size, (i + 1) * chunk_size))
RangeRecords == [i \in 1..(RangeEnd - start0) |-> Record(start0 + i - 1)]

\* ------------------------------------------------------------------ claims
\* C1: the i-th chunk stream_vecs_from yields is the bytes
\* [(start_index+i)*c, (start_index+i+1)*c) of the object (ascending order,
\* no record twice, none skipped), and every range read, re-issued ones
\* included, starts at the first record not yet yielded.
C1_ResumeInvariant ==
    /\ \A i \in 1..Len(Chunks) : Chunks[i] = Record(start0 + i - 1)
    /\ \A j \in 1..Len(hist) :
          hist[j].ev = "req" => hist[j].val[1] = start0 + ChunksBefore(j)

\* A read was re-issued after a failure that followed a delivered chunk, and
\* a further chunk was delivered after it.
C1_Witness ==
    \E j \in 1..Len(hist) :
        /\ hist[j].ev = "fail"
        /\ \E i \in 1..(j - 1) : hist[i].ev = "chunk"
        /\ \E k \in (j + 1)..Len(hist) : hist[k].ev = "chunk"

\* C6: a terminal read error is yielded exactly when 5 read failures occur
\* in a row with no chunk delivered between them (a delivered chunk resets
\* the count); it is yielded once and ends the stream; and a reader whose
\* every read fails has re-requested the same start_index and never advanced.
C6_FailureThreshold ==
    /\ (\E j \in 1..Len(hist) : ReadErrAt(j)) <=> MaxFailRun >= FailureLimit
    /\ MaxFailRun <= FailureLimit
    /\ \A j \in 1..Len(hist) :
          ReadErrAt(j) =>
             /\ FailRunAt(j) = FailureLimit
             /\ hist[j - 1].ev = "fail"
             /\ \A k \in (j + 1)..Len(hist) : hist[k].ev = "end"
    /\ Cardinality({j \in 1..Len(hist) : ReadErrAt(j)}) <= 1
    /\ Chunks = <<>> =>
          /\ start_index = start0
          /\ \A j \in 1..Len(hist) :
                hist[j].ev = "req" => hist[j].val[1] = start0

\* More than 5 failures in all, separated by a delivery, did not end the
\* stream; the 5 in a row that followed did.
C6_Witness ==
    /\ rpc = "done"
    /\ Len(Chunks) >= 1
    /\ Cardinality({j \in 1..Len(hist) : hist[j].ev = "fail"}) >= 2 * FailureLimit - 1
    /\ \E j \in 1..Len(hist) : ReadErrAt(j)

\* C7 (what has been delivered when the stream ends): with no 5 read
\* failures in a row and every get_object call served, the stream has yielded
\* exactly the records of the range, once each and in order, and no error.
C7_Delivered ==
    (/\ rpc = "done"
     /\ MaxFailRun < FailureLimit
     /\ \A j \in 1..Len(hist) : hist[j].ev # "initfail")
    => Yielded = RangeRecords \o <<EndItem>>

\* C7: for bounded and unbounded ranges, whenever read failures never occur
\* 5 times in a row, the stream eventually ends having yielded every record
\* of the range once and no error, wherever the failures occurred.
C7_SameAsOneRead == []C7_Delivered /\ <>(rpc \in {"done", "panicked"})

\* An unbounded read that failed before its first record, between two
\* records and after its last record, and ended.
C7_Witness ==
    /\ rpc = "done"
    /\ end_index = None
    /\ Len(Chunks) >= 2
    /\ Yielded = RangeRecords \o <<EndItem>>
    /\ \E a, b, c \in 1..Len(hist) :
          /\ hist[a].ev = "fail" /\ ChunksBefore(a) = 0
          /\ hist[b].ev = "fail" /\ ChunksBefore(b) \in 1..(Len(Chunks) - 1)
          /\ hist[c].ev = "fail" /\ ChunksBefore(c) = Len(Chunks)

\* C8: a get_object call that fails, first or re-issued and whatever the
\* failure counter, makes the stream yield StreamInitFailed once and end:
\* nothing is requested afterwards.
C8_InitFailureFatal ==
    /\ \A j \in 1..Len(hist) :
          hist[j].ev = "initfail" =>
             /\ hist[j - 1].ev = "req"
             /\ j < Len(hist) /\ InitErrAt(j + 1)
             /\ \A k \in (j + 2)..Len(hist) : hist[k].ev = "end"
    /\ Cardinality({j \in 1..Len(hist) : InitErrAt(j)}) <= 1
    /\ (\E j \in 1..Len(hist) : InitErrAt(j)) => rpc \in {"after_err", "done"}

\* A request re-issued after read failures could not be initiated, and the
\* stream has ended.
C8_Witness ==
    /\ rpc = "done"
    /\ failure_count >= 2
    /\ Len(Chunks) >= 1
    /\ \E j \in 1..Len(hist) : InitErrAt(j)

\* The Some(..) items the wrapped stream_vecs_from has yielded.
ReaderItems == Filter(hist, {"chunk", "err"})

\* C9: the consumer of concurrent_stream_vecs_from observes the sequence the
\* wrapped stream_vecs_from produced, in order: every chunk, then the error
\* (once) if the reader ended with one, and nothing after it; the spawned
\* task has left its loop once the terminal value is pushed.
C9_SameSequence ==
    /\ Len(received) <= Len(ReaderItems)
    /\ received = SubSeq(ReaderItems, 1, Len(received))
    /\ rx # "dropped" =>
          received \o Filter(queue, {"chunk", "err"})
             = SubSeq(ReaderItems, 1, Len(received) + Len(Filter(queue, {"chunk", "err"})))
    /\ rx = "ended" =>
          /\ received = ReaderItems
          /\ rpc \in {"done", "after_err", "panicked"}
    /\ \A i \in 1..(Len(received) - 1) : received[i].ev = "chunk"
    /\ \A i \in 1..Len(queue) : IsLast(queue[i]) => i = Len(queue) /\ ppc = "done"
    /\ (received # <<>> /\ received[Len(received)].ev = "err") => ppc = "done"
    /\ ppc = "done" => IsLast(held) /\ rpc \in {"done", "after_err"}

\* The consumer has observed chunks, then the reader's error, then the end.
C9_Witness ==
    /\ rx = "ended"
    /\ Len(received) >= 3
    /\ received[Len(received)].ev = "err"
    /\ ppc = "done"

\* C10 (after the consumer is dropped): the task's next attempt to push ends
\* it, and an ended task issues no range read.
C10_PushEndsTask ==
    /\ (rx = "dropped" /\ ppc = "send") => (ppc' \in {"send", "panicked"})
    /\ (rx = "dropped" /\ ppc \in {"done", "panicked"}) =>
          (ppc' = ppc /\ Requests' = Requests)

\* C10: once the consumer is dropped (queue empty, partly full, or full with
\* the task pending in send), the spawned task eventually terminates, and it
\* issues no range read after its next attempt to push.
C10_ProducerTerminates ==
    /\ (rx = "dropped") ~> (ppc \in {"done", "panicked"})
    /\ [][C10_PushEndsTask]_vars

\* The consumer was dropped while the task was pending in send on a full
\* channel, and the task has ended.
C10_Witness ==
    /\ rx = "dropped"
    /\ Len(queue) = QueueDepth
    /\ ppc = "panicked"
    /\ held.ev = "chunk"

\* ------------------------------------------------------ Upload, observations
NoPartFailed == \A c \in 1..Len(calls) : calls[c].status # "failed"

\* complete_multipart_upload has been called.
CompletionIssued ==
    \/ upc = "completion_sent"
    \/ upc = "returned" /\ uerr \in {"none", "CompletionFailed"}

\* The tags of a tag list.
Tags(ps) == {ps[i] : i \in 1..Len(ps)}

\* The object the completion call finalizes: the bodies of the parts its
\* tags name, in part-number (list) order.
RECURSIVE BodiesOf(_)
BodiesOf(ps) ==
    IF ps = <<>> THEN <<>>
    ELSE calls[Head(ps)].body \o BodiesOf(Tail(ps))

FinalObject == BodiesOf(completion)

\* Everything that was passed to send, in call order.
AllSent == [i \in 1..sent |-> i]

\* C2: a part upload is never started before the previous part's result is
\* folded into the info, so the upload_part calls of one Upload carry the
\* part numbers 1, 2, 3, ... in start order, none twice (stated for the runs
\* in which no upload_part call fails).
C2_AscendingPartNumbers ==
    NoPartFailed =>
        /\ \A c \in 1..Len(calls) : calls[c].num = c
        /\ \A c \in 1..(Len(calls) - 1) : ETag(c) \in Tags(parts)

\* C3: the object finalized by complete is the concatenation of all bytes
\* passed to send, in call order.
C3_RoundTrip ==
    (CompletionIssued /\ NoPartFailed) => FinalObject = AllSent

\* C4: with total = N * part_size + r bytes sent, the completion call carries
\* N tags if r = 0 and N + 1 if r > 0, the tag at position i being the one
\* the store returned for part number i + 1, as many tags as upload_part
\* calls succeeded, and none was made when nothing was sent.
C4_PartCount ==
    (CompletionIssued /\ NoPartFailed) =>
        /\ Len(completion) = (sent \div size_per_upload)
              + (IF sent % size_per_upload > 0 THEN 1 ELSE 0)
        /\ \A i \in 1..Len(completion) : calls[completion[i]].num = i
        /\ Len(completion) = Cardinality({c \in 1..Len(calls) : calls[c].status = "ok"})
        /\ sent = 0 => calls = <<>>

\* C5: when complete_multipart_upload is called, every upload_part call
\* ever started has returned successfully, its tag is in the list sent, and
\* no part upload is still running.
C5_AllPartsAcknowledged ==
    (upc = "completion_sent" /\ NoPartFailed) =>
        \A c \in 1..Len(calls) :
            calls[c].status = "ok" /\ ETag(c) \in Tags(completion)

\* Call c of upload_part was made and failed.
Failed(c) == c # 0 /\ calls[c].status = "failed"

\* C11 as stated: complete returns FinalPartFailed if and only if the upload
\* of the forced final (remainder) part fails, and CompletionFailed if and
\* only if the complete_multipart_upload call fails.
C11_OnlyRemainderPart ==
    upc = "returned" =>
        /\ uerr = "FinalPartFailed" <=> Failed(fin.part)
        /\ uerr = "CompletionFailed" <=> fin.completion = "failed"

\* C11 as amended: complete returns FinalPartFailed if and only if an
\* upload_part call that send_final awaits fails, be it the in-flight part it
\* joins or the remainder part; CompletionFailed if and only if the
\* complete_multipart_upload call fails; and Ok otherwise.
C11_ErrorKinds ==
    upc = "returned" =>
        /\ uerr = "FinalPartFailed" <=> (Failed(fin.joined) \/ Failed(fin.part))
        /\ uerr = "CompletionFailed" <=> fin.completion = "failed"
        /\ uerr = "none" <=> fin.completion = "ok"
        /\ uerr \in {"none", "FinalPartFailed", "CompletionFailed"}

\* complete returned FinalPartFailed for the in-flight part it joined, the
\* buffered remainder never having been uploaded.
C11_Witness ==
    /\ upc = "returned"
    /\ uerr = "FinalPartFailed"
    /\ Failed(fin.joined)
    /\ data # <<>>
    /\ fin.part = 0

\* C12: an Upload rebuilt by new_from_info from an info with k folded parts
\* makes no create_multipart_upload call, never calls upload_part with a part
\* number <= k, numbers its next part k + 1, and sends a completion tag list
\* that starts with the k restored tags in their order.
C12_ResumeKeepsParts ==
    /\ creates = 0
    /\ \A c \in (restored + 1)..Len(calls) : calls[c].num > restored
    /\ Len(calls) > restored => calls[restored + 1].num = restored + 1
    /\ Len(parts) >= restored
    /\ SubSeq(parts, 1, restored) = [j \in 1..restored |-> ETag(j)]
    /\ CompletionIssued =>
          /\ Len(completion) >= restored
          /\ SubSeq(completion, 1, restored) = [j \in 1..restored |-> ETag(j)]

\* An Upload rebuilt from two folded parts has uploaded further parts and
\* called complete_multipart_upload.
C12_Witness ==
    /\ restored = 2
    /\ Len(calls) >= restored + 2
    /\ CompletionIssued
    /\ Len(completion) > restored

\* C13: in Uploads, at most one caller is inside Upload::send of an upload
\* at any time, a caller waiting for the lock of upload i is granted it
\* whenever no send is in progress on i, whatever is in progress on other
\* uploads, and a caller holds exactly the lock of its upload while inside
\* send and no lock before it was granted and after send returned.
C13_PerUploadLocking ==
    /\ \A i \in UploadIx : Cardinality(inside[i]) <= 1
    /\ \A c \in Callers :
          (caller[c].pc = "lock" /\ inside[caller[c].index] = {})
              => ENABLED Acquire(c)
    /\ \A c \in Callers :
          /\ InSend(c) => /\ Cardinality(HeldBy(c)) = 1
                          /\ c \in inside[caller[c].index]
          /\ ~InSend(c) => /\ HeldBy(c) = {}
                           /\ \A i \in UploadIx : c \notin inside[i]

\* A caller whose earlier send returned an error is inside send on one
\* upload while another caller is suspended inside send on another upload.
C13_Witness ==
    \E c, d \in Callers :
        /\ caller[c].pc = "join"
        /\ caller[d].pc = "send"
        /\ caller[d].result = "err"
        /\ caller[c].index # caller[d].index

\* C14 as claimed: when Uploads::complete has returned, every owned upload
\* has been finalized, an error of one upload notwithstanding.
C14_AllFinalized ==
    set_pc = "returned" => \A i \in UploadIx : ups[i] # "open"

\* C14: Uploads::complete finalizes the uploads in index order up to the
\* first error: it returns Ok with every upload completed, or the error of
\* the first upload that failed, every upload before it completed and every
\* upload after it left as it was.
C14_StopsAtFirstError ==
    set_pc = "returned" =>
        \/ /\ set_err = "none"
           /\ \A i \in UploadIx : ups[i] = "completed"
        \/ \E i \in UploadIx :
              /\ \/ set_err = "FinalPartFailed" /\ ups[i] = "final_failed"
                 \/ set_err = "CompletionFailed" /\ ups[i] = "completion_failed"
              /\ \A j \in UploadIx : j < i => ups[j] = "completed"
              /\ \A j \in UploadIx : j > i => ups[j] = "open"

\* Uploads::complete returned the error of the first upload and the second
\* upload is still open.
C14_Witness ==
    /\ set_pc = "returned"
    /\ set_err = "FinalPartFailed"
    /\ ups[1] = "final_failed"
    /\ ups[2] = "open"

\* The number of chunks stream_vecs owes for an input of whole chunks.
ChunksWanted ==
    IF end_index = None THEN obj_len \div chunk_size
    ELSE Min(end_index, obj_len \div chunk_size)

C15_Chunks ==
    (obj_len % chunk_size = 0 /\ Filter(hist, {"err"}) = <<>>) =>
        /\ Len(Chunks) <= ChunksWanted
        /\ \A i \in 1..Len(Chunks) :
              Chunks[i].val = ObjBytes((i - 1) * chunk_size, i * chunk_size)
        /\ rpc # "panicked"
        /\ rpc = "done" => Len(Chunks) = ChunksWanted

C15_NoReadAfterCount == count = 0 => body_pos' = body_pos

\* C15: stream_vecs, given an input of a whole number of chunks delivered in
\* any pieces without a read error, yields the first min(count, length /
\* chunk_size) chunks of the input, each of chunk_size bytes and in input
\* order, and reads no piece once the count is reached.
C15_StreamVecs == []C15_Chunks /\ [][C15_NoReadAfterCount]_vars

\* stream_vecs ended at its count with bytes of the input left in its buffer.
C15_Witness ==
    /\ obj_len = 4 /\ chunk_size = 1 /\ end_index = 2
    /\ rpc = "done"
    /\ Len(Chunks) = 2
    /\ buf # <<>>
    /\ Filter(hist, {"err"}) = <<>>

\* C16: download_vec returns a buffer only after declared_length bytes of
\* the body were copied: a read failure or an end of the body before that
\* is not answered with a buffer, so a returned buffer is the whole body.
C16_ReadToCompletion ==
    (dv_pc = "returned" /\ dv_result = "some") =>
        /\ dv_off = dv_size
        /\ dv_vec = BodyBytes(0, dv_size)

\* C17: an Upload has at most one part task that was spawned and has not
\* been joined and folded, and that task is the one upload_task holds: no
\* task is replaced or dropped while it is not joined.
C17_OnePendingPart ==
    /\ Cardinality(pending) <= 1
    /\ pending = IF upload_task = 0 THEN {} ELSE {upload_task}

C18_Bounded ==
    /\ Len(queue) <= QueueDepth
    /\ Len(ReaderItems) - Len(received) <= QueueDepth + 1
    /\ rx = "open" => Len(Yielded) - Len(received) <= QueueDepth + 1

C18_NoPullWhileFull ==
    (ppc = "send" /\ Len(queue) = QueueDepth) => UNCHANGED readerVars

\* C18: the queue of concurrent_stream_vecs_from never holds more than 10
\* items, at most 11 items have been pulled by the task and not yet received
\* by the consumer, and while the task holds an item that the full queue does
\* not take, the reader is not polled and issues no request.
C18_BoundedLookahead == []C18_Bounded /\ [][C18_NoPullWhileFull]_vars

\* The queue is full and the task holds an eleventh item it cannot push.
C18_Witness ==
    /\ Len(queue) = QueueDepth
    /\ ppc = "send"
    /\ rx = "open"
    /\ Len(Yielded) - Len(received) = QueueDepth + 1

\* upload.rs:129: the size of the part whose task is held, 0 if none is.
InFlightBytes == IF upload_task = 0 THEN 0 ELSE Len(calls[upload_task].body)

\* C19: on a fresh Upload with no failed part, whenever send has returned,
\* the bytes accepted so far are uploaded_bytes plus the part in flight plus
\* the buffer, the buffer is shorter than a part, and uploaded_bytes is the
\* length of the input prefix the tags in parts cover.
C19_ByteAccounting ==
    (upc = "idle" /\ NoPartFailed) =>
        /\ sent = uploaded_bytes + InFlightBytes + Len(data)
        /\ Len(data) < size_per_upload
        /\ BodiesOf(parts) = [i \in 1..uploaded_bytes |-> i]

\* C20: when stream_vecs_from is started on a bounded range with
\* start_index < end_index, every range read it issues, re-issued ones
\* included, has start_index < end_index, so start_pos <= end_pos and a count
\* of at least 1; start_index never exceeds end_index; and no read is issued
\* once the last record of the range has been delivered.
C20_WellFormedRequests ==
    (end_index # None /\ start0 < end_index) =>
        /\ start_index <= end_index
        /\ count # None => count <= end_index - start0
        /\ \A j \in 1..Len(hist) :
              hist[j].ev = "req" =>
                  LET s == hist[j].val[1]
                      e == hist[j].val[2]
                  IN /\ s < e
                     /\ s * chunk_size <= e * chunk_size - 1
                     /\ e - s >= 1
                     /\ ChunksBefore(j) < end_index - start0
        /\ start_index = end_index => rpc # "request"

\* A bounded read of at least two records was re-issued for its last record
\* after a failure and ended with that record delivered.
C20_Witness ==
    /\ end_index # None /\ end_index - start0 >= 2
    /\ rpc = "done"
    /\ start_index = end_index
    /\ \E j \in 1..Len(hist) :
          /\ hist[j].ev = "req"
          /\ hist[j].val[1] = end_index - 1
          /\ j > 1 /\ hist[j - 1].ev = "fail"

====
